---- MODULE Spec2Model ----
(***************************************************************************)
(* hematite-lang front end: the tokenizer of src/lexer.rs (with the exact  *)
(* match matchers generated by helper_macros/src/lib.rs) and the recursive *)
(* descent parser of src/parser.rs, driven the way src/main.rs drives it.  *)
(*                                                                         *)
(* Text is a sequence of one-character strings.  Option<T> is a sequence   *)
(* of length 0 (None) or 1 (Some).                                         *)
(***************************************************************************)
EXTENDS Integers, Sequences, FiniteSets, TLC

VARIABLES
    input,                \* the characters the underlying char iterator yields
    pulled,               \* how many of them the Peekable has pulled so far
    cpeek,                \* Peekable<chars>::peeked : Option<Option<char>>
    found_invalid_token,  \* TokenIterator::found_invalid_token
    lpc,                  \* position inside TokenIterator::next
    possibilities,        \* local `possibilities` of next
    characters_read_so_far, \* local `characters_read_so_far` of next
    tokBuf,               \* Peekable<TokenIterator>::peeked (or the value just returned)
    emitted,              \* history: [result, text, at] of every return of next():
                          \* the value, the characters consumed for it, where they start
    pstack,               \* the parser's call stack (frames of parser.rs functions)
    pret,                 \* value returned by the parser function that just returned
    parse_result,         \* main's `parse_result`
    visits                \* the calls a recording AstVisitor has received: [method, argument]

lexvars == <<input, pulled, cpeek, found_invalid_token, lpc, possibilities,
             characters_read_so_far, emitted>>
parservars == <<pstack, pret, parse_result>>
vars == <<input, pulled, cpeek, found_invalid_token, lpc, possibilities,
          characters_read_so_far, tokBuf, emitted, pstack, pret, parse_result, visits>>

(***************************************************************************)
(* Bounds                                                                  *)
(***************************************************************************)
\* longest enumerated tokenizer input
MaxLen == 3
\* calls of next() made after the first end of sequence
MaxExtraCalls == 2
\* number of arbitrary words appended to a prefix of the base program
MaxTail == 2
MaxItems == 2

None == <<>>
Some(x) == <<x>>

(***************************************************************************)
(* Character classes (char::is_alphabetic and friends), over the           *)
(* characters the inputs below are made of.                                *)
(***************************************************************************)
Letters == {"a","b","c","d","e","f","g","h","i","j","k","l","m","n","o","p",
            "q","r","s","t","u","v","w","x","y","z"}
AsciiDigits == {"0","1","2","3","4","5","6","7","8","9"}
\* numeric in the Unicode sense but not an ASCII digit (superscript two, No)
OtherNumerics == {"²"}
Whitespace == {" ", "\n", "\t"}

is_alphabetic(c) == c \in Letters
is_ascii_digit(c) == c \in AsciiDigits
is_numeric(c) == c \in AsciiDigits \cup OtherNumerics
is_alphanumeric(c) == is_alphabetic(c) \/ is_numeric(c)
is_whitespace(c) == c \in Whitespace

(***************************************************************************)
(* Tokens: [type, value]; value is the payload text (empty for marks and   *)
(* keywords).                                                              *)
(***************************************************************************)
Tok(t, v) == [type |-> t, value |-> v]
Mark(t) == Tok(t, <<>>)

\* exact_match_token! invocations, lexer.rs 309-345
ExactMatchString(t) ==
    CASE t = "LeftParen" -> <<"(">>
      [] t = "RightParen" -> <<")">>
      [] t = "LeftBrace" -> <<"{">>
      [] t = "RightBrace" -> <<"}">>
      [] t = "LeftBracket" -> <<"[">>
      [] t = "RightBracket" -> <<"]">>
      [] t = "Comma" -> <<",">>
      [] t = "Dot" -> <<".">>
      [] t = "Colon" -> <<":">>
      [] t = "Semicolon" -> <<";">>
      [] t = "Plus" -> <<"+">>
      [] t = "Minus" -> <<"-">>
      [] t = "Star" -> <<"*">>
      [] t = "Slash" -> <<"/">>
      [] t = "Percent" -> <<"%">>
      [] t = "Arrow" -> <<"-", ">">>
      [] t = "Equals" -> <<"=">>
      [] t = "Function" -> <<"f","u","n","c","t","i","o","n">>
      [] t = "Let" -> <<"l","e","t">>
      [] t = "Mut" -> <<"m","u","t">>
      [] t = "If" -> <<"i","f">>
      [] t = "Else" -> <<"e","l","s","e">>
      [] t = "I8" -> <<"i","8">>
      [] t = "I16" -> <<"i","1","6">>
      [] t = "I32" -> <<"i","3","2">>
      [] t = "I64" -> <<"i","6","4">>
      [] t = "Iptr" -> <<"i","p","t","r">>
      [] t = "U8" -> <<"u","8">>
      [] t = "U16" -> <<"u","1","6">>
      [] t = "U32" -> <<"u","3","2">>
      [] t = "U64" -> <<"u","6","4">>
      [] t = "Uptr" -> <<"u","p","t","r">>
      [] t = "F32" -> <<"f","3","2">>
      [] t = "F64" -> <<"f","6","4">>
      [] t = "Bool" -> <<"b","o","o","l">>
      [] t = "CharType" -> <<"c","h","a","r">>
      [] t = "StringType" -> <<"s","t","r","i","n","g">>

(***************************************************************************)
(* Matchers (impl TokenParser): a matcher is a record of its struct fields *)
(***************************************************************************)
ExactParser(t) == [kind |-> "exact", token |-> t, offset |-> 0]
IdentifierParser == [kind |-> "identifier", so_far |-> <<>>]
MacroCallParser == [kind |-> "macro_call", so_far |-> <<>>, found_bang |-> FALSE]
IntegerParser == [kind |-> "integer", so_far |-> <<>>]
FloatParser == [kind |-> "float", so_far |-> <<>>, found_dot |-> FALSE]
StringParser == [kind |-> "string", so_far |-> <<>>, found_initial_quote |-> FALSE,
                 found_terminal_quote |-> FALSE, next_character_is_escaped |-> FALSE]

\* mutant: the identifier and macro-call matchers are registered first
NewPossibilities_IdentifierFirst ==
    << IdentifierParser, MacroCallParser,
       ExactParser("Function"), ExactParser("Let"), ExactParser("Mut"),
       ExactParser("If"), ExactParser("Else"), ExactParser("I8"),
       ExactParser("I16"), ExactParser("I32"), ExactParser("I64"),
       ExactParser("Iptr"), ExactParser("U8"), ExactParser("U16"),
       ExactParser("U32"), ExactParser("U64"), ExactParser("Uptr"),
       ExactParser("F32"), ExactParser("F64"), ExactParser("Bool"),
       ExactParser("CharType"), ExactParser("StringType"),
       FloatParser, IntegerParser,
       StringParser,
       ExactParser("LeftParen"), ExactParser("RightParen"),
       ExactParser("LeftBrace"), ExactParser("RightBrace"),
       ExactParser("LeftBracket"), ExactParser("RightBracket"),
       ExactParser("Comma"), ExactParser("Dot"), ExactParser("Colon"),
       ExactParser("Semicolon"), ExactParser("Plus"), ExactParser("Minus"),
       ExactParser("Star"), ExactParser("Slash"), ExactParser("Percent"),
       ExactParser("Arrow"), ExactParser("Equals") >>

\* the vec! of lexer.rs 367-410, in registration order
NewPossibilities ==
    << ExactParser("Function"), ExactParser("Let"), ExactParser("Mut"),
       ExactParser("If"), ExactParser("Else"), ExactParser("I8"),
       ExactParser("I16"), ExactParser("I32"), ExactParser("I64"),
       ExactParser("Iptr"), ExactParser("U8"), ExactParser("U16"),
       ExactParser("U32"), ExactParser("U64"), ExactParser("Uptr"),
       ExactParser("F32"), ExactParser("F64"), ExactParser("Bool"),
       ExactParser("CharType"), ExactParser("StringType"),
       IdentifierParser, MacroCallParser, FloatParser, IntegerParser,
       StringParser,
       ExactParser("LeftParen"), ExactParser("RightParen"),
       ExactParser("LeftBrace"), ExactParser("RightBrace"),
       ExactParser("LeftBracket"), ExactParser("RightBracket"),
       ExactParser("Comma"), ExactParser("Dot"), ExactParser("Colon"),
       ExactParser("Semicolon"), ExactParser("Plus"), ExactParser("Minus"),
       ExactParser("Star"), ExactParser("Slash"), ExactParser("Percent"),
       ExactParser("Arrow"), ExactParser("Equals") >>

\* mutant: a matcher that has matched its whole text keeps accepting
ExactAccept_AcceptsPastEnd(m, c) ==
    IF m.offset < Len(ExactMatchString(m.token))
    THEN IF ExactMatchString(m.token)[m.offset + 1] = c
         THEN Some([m EXCEPT !.offset = m.offset + 1])
         ELSE None
    ELSE Some(m)

\* helper_macros: accept of an exact match matcher
ExactAccept(m, c) ==
    IF m.offset < Len(ExactMatchString(m.token))
       /\ ExactMatchString(m.token)[m.offset + 1] = c
    THEN Some([m EXCEPT !.offset = m.offset + 1])
    ELSE None

\* helper_macros: complete of an exact match matcher
ExactComplete(m) ==
    IF m.offset = Len(ExactMatchString(m.token)) THEN Some(Mark(m.token)) ELSE None

IdentifierAccept(m, c) ==
    IF is_alphabetic(c) \/ c = "_" \/ (m.so_far # <<>> /\ is_ascii_digit(c))
    THEN Some([m EXCEPT !.so_far = Append(m.so_far, c)])
    ELSE None

IdentifierComplete(m) == Some(Tok("Identifier", m.so_far))

MacroCallAccept(m, c) ==
    IF m.found_bang THEN None
    ELSE IF is_alphanumeric(c) \/ c = "_"
         THEN Some([m EXCEPT !.so_far = Append(m.so_far, c)])
         ELSE IF c = "!" THEN Some([m EXCEPT !.found_bang = TRUE])
              ELSE None

MacroCallComplete(m) ==
    IF m.found_bang THEN Some(Tok("MacroCall", m.so_far)) ELSE None

IntegerAccept(m, c) ==
    IF is_numeric(c) THEN Some([m EXCEPT !.so_far = Append(m.so_far, c)]) ELSE None

FloatAccept(m, c) ==
    IF is_numeric(c) THEN Some([m EXCEPT !.so_far = Append(m.so_far, c)])
    ELSE IF c = "." /\ ~m.found_dot
         THEN Some([m EXCEPT !.so_far = Append(m.so_far, c), !.found_dot = TRUE])
         ELSE None

StringAccept(m, c) ==
    IF m.found_terminal_quote THEN None
    ELSE IF ~m.found_initial_quote
         THEN IF c = "\"" THEN Some([m EXCEPT !.found_initial_quote = TRUE]) ELSE None
         ELSE IF c = "\"" /\ ~m.next_character_is_escaped
              THEN Some([m EXCEPT !.found_terminal_quote = TRUE,
                                  !.next_character_is_escaped = FALSE])
              ELSE Some([m EXCEPT !.so_far = Append(m.so_far, c),
                                  !.next_character_is_escaped = (c = "\\")])

StringComplete(m) ==
    IF m.found_terminal_quote THEN Some(Tok("StringLiteral", m.so_far)) ELSE None

(***************************************************************************)
(* Numeric conversions.  A parsed number is kept as the decimal text that  *)
(* Display prints for it (`{i}` / `{value}`), i.e. its canonical form, so   *)
(* that "007" and "7" are the same Integer and TLC's 32 bit integers do    *)
(* not limit the i128 range.                                               *)
(***************************************************************************)
DigitValue(c) ==
    CASE c = "0" -> 0 [] c = "1" -> 1 [] c = "2" -> 2 [] c = "3" -> 3
      [] c = "4" -> 4 [] c = "5" -> 5 [] c = "6" -> 6 [] c = "7" -> 7
      [] c = "8" -> 8 [] c = "9" -> 9

RECURSIVE StripLeadingZeros(_)
StripLeadingZeros(s) ==
    IF s # <<>> /\ Head(s) = "0" THEN StripLeadingZeros(Tail(s)) ELSE s

RECURSIVE StripTrailingZeros(_)
StripTrailingZeros(s) ==
    IF s # <<>> /\ s[Len(s)] = "0"
    THEN StripTrailingZeros(SubSeq(s, 1, Len(s) - 1)) ELSE s

\* i128::MAX
I128MaxDigits ==
    <<"1","7","0","1","4","1","1","8","3","4","6","0","4","6","9","2","3","1","7",
      "3","1","6","8","7","3","0","3","7","1","5","8","8","4","1","0","5","7","2","7">>

\* a < b for digit strings of equal length
RECURSIVE DigitsLess(_, _)
DigitsLess(a, b) ==
    IF a = <<>> THEN FALSE
    ELSE IF DigitValue(Head(a)) # DigitValue(Head(b))
         THEN DigitValue(Head(a)) < DigitValue(Head(b))
         ELSE DigitsLess(Tail(a), Tail(b))

AllAsciiDigits(s) == \A i \in 1..Len(s) : is_ascii_digit(s[i])

\* str::parse::<i128>() on a run of numeric characters: Some(value) or None (Err)
ParseI128(s) ==
    IF s = <<>> \/ ~AllAsciiDigits(s) THEN None
    ELSE LET d == StripLeadingZeros(s) IN
         IF Len(d) > Len(I128MaxDigits)
            \/ (Len(d) = Len(I128MaxDigits) /\ DigitsLess(I128MaxDigits, d))
         THEN None
         ELSE Some(IF d = <<>> THEN <<"0">> ELSE d)

DotIndex(s) == CHOOSE i \in 1..Len(s) : s[i] = "."

\* str::parse::<f64>() on digits with exactly one dot: Some(value) or None (Err)
ParseF64(s) ==
    LET k == DotIndex(s)
        ip == SubSeq(s, 1, k - 1)
        fp == SubSeq(s, k + 1, Len(s))
    IN IF (ip = <<>> /\ fp = <<>>) \/ ~AllAsciiDigits(ip) \/ ~AllAsciiDigits(fp)
       THEN None
       ELSE LET i == IF StripLeadingZeros(ip) = <<>> THEN <<"0">>
                     ELSE StripLeadingZeros(ip)
                f == StripTrailingZeros(fp)
            IN Some(IF f = <<>> THEN i ELSE i \o <<".">> \o f)

\* complete() of every matcher: [panic, tok]; panic is a failed unwrap()
Completed(t) == [panic |-> FALSE, tok |-> t]
Panicked == [panic |-> TRUE, tok |-> None]

IntegerComplete(m) ==
    IF ParseI128(m.so_far) = None THEN Panicked
    ELSE Completed(Some(Tok("Integer", ParseI128(m.so_far)[1])))

FloatComplete(m) ==
    IF ~m.found_dot THEN Completed(None)
    ELSE IF ParseF64(m.so_far) = None THEN Panicked
         ELSE Completed(Some(Tok("Float", ParseF64(m.so_far)[1])))

\* dyn TokenParser::accept
Accept(m, c) ==
    CASE m.kind = "exact" -> ExactAccept(m, c)
      [] m.kind = "identifier" -> IdentifierAccept(m, c)
      [] m.kind = "macro_call" -> MacroCallAccept(m, c)
      [] m.kind = "integer" -> IntegerAccept(m, c)
      [] m.kind = "float" -> FloatAccept(m, c)
      [] m.kind = "string" -> StringAccept(m, c)

\* dyn TokenParser::complete
Complete(m) ==
    CASE m.kind = "exact" -> Completed(ExactComplete(m))
      [] m.kind = "identifier" -> Completed(IdentifierComplete(m))
      [] m.kind = "macro_call" -> Completed(MacroCallComplete(m))
      [] m.kind = "integer" -> IntegerComplete(m)
      [] m.kind = "float" -> FloatComplete(m)
      [] m.kind = "string" -> Completed(StringComplete(m))

\* possibilities.iter().filter_map(|p| p.accept(c)).collect()
RECURSIVE FilterMapAccept(_, _)
FilterMapAccept(ps, c) ==
    IF ps = <<>> THEN <<>>
    ELSE Accept(Head(ps), c) \o FilterMapAccept(Tail(ps), c)

\* mutant: the last candidate that completes wins instead of the first
RECURSIVE LastCompleted(_)
LastCompleted(ps) ==
    IF ps = <<>> THEN Completed(None)
    ELSE LET r == LastCompleted(Tail(ps)) IN
         IF r.panic \/ r.tok # None THEN r ELSE Complete(Head(ps))

\* possibilities.iter().filter_map(|p| p.complete()).next(): the iterator is
\* lazy, so complete() runs on the candidates in order up to the first Some
RECURSIVE FirstCompleted(_)
FirstCompleted(ps) ==
    IF ps = <<>> THEN Completed(None)
    ELSE LET r == Complete(Head(ps)) IN
         IF r.panic \/ r.tok # None THEN r ELSE FirstCompleted(Tail(ps))

(***************************************************************************)
(* Peekable<chars>                                                         *)
(***************************************************************************)
\* the Peekable after peek(): the slot is filled from the source if empty
PeekFill ==
    IF cpeek # None THEN [slot |-> cpeek, pulled |-> pulled]
    ELSE IF pulled < Len(input)
         THEN [slot |-> Some(Some(input[pulled + 1])), pulled |-> pulled + 1]
         ELSE [slot |-> Some(None), pulled |-> pulled]

\* what base_iterator.peek() returns : Option<char>
Peeked == PeekFill.slot[1]

\* peek() alone
PeekOnly == cpeek' = PeekFill.slot /\ pulled' = PeekFill.pulled

\* peek() followed by base_iterator.next()
PeekAndConsume == cpeek' = None /\ pulled' = PeekFill.pulled

\* characters handed out by base_iterator.next() so far
Consumed == pulled - (IF cpeek # None /\ cpeek[1] # None THEN 1 ELSE 0)

(***************************************************************************)
(* TokenIterator::next, lexer.rs 355-445                                   *)
(***************************************************************************)
\* `return r` : the value goes to the caller; the locals are dropped
NextReturn(r) ==
    /\ lpc' = "idle"
    /\ tokBuf' = Some(r)
    /\ emitted' = Append(emitted, [result |-> r, text |-> characters_read_so_far,
                                   at |-> Consumed - Len(characters_read_so_far)])
    /\ possibilities' = <<>>
    /\ characters_read_so_far' = <<>>

\* mutant: the early return is missing, next() goes on scanning
NextAfterInvalid_KeepsScanning ==
    /\ lpc = "entry"
    /\ found_invalid_token
    /\ lpc' = "skip"
    /\ UNCHANGED <<input, pulled, cpeek, found_invalid_token, possibilities,
                   characters_read_so_far, tokBuf, emitted, pstack, pret, parse_result, visits>>

\* 356-358
NextAfterInvalid ==
    /\ lpc = "entry"
    /\ found_invalid_token
    /\ NextReturn(None)
    /\ UNCHANGED <<input, pulled, cpeek, found_invalid_token, pstack, pret, parse_result, visits>>

NextEnter ==
    /\ lpc = "entry"
    /\ ~found_invalid_token
    /\ lpc' = "skip"
    /\ UNCHANGED <<input, pulled, cpeek, found_invalid_token, possibilities,
                   characters_read_so_far, tokBuf, emitted, pstack, pret, parse_result, visits>>

\* 359-366, one iteration of the whitespace loop
SkipWhitespace ==
    /\ lpc = "skip"
    /\ Peeked # None /\ is_whitespace(Peeked[1])
    /\ PeekAndConsume
    /\ UNCHANGED <<input, found_invalid_token, lpc, possibilities,
                   characters_read_so_far, tokBuf, emitted, pstack, pret, parse_result, visits>>

\* 359-411, the whitespace loop ends; the candidates are created
BeginToken ==
    /\ lpc = "skip"
    /\ ~(Peeked # None /\ is_whitespace(Peeked[1]))
    /\ PeekOnly
    /\ possibilities' = NewPossibilities
    /\ characters_read_so_far' = <<>>
    /\ lpc' = "scan"
    /\ UNCHANGED <<input, found_invalid_token, tokBuf, emitted, pstack, pret, parse_result, visits>>

\* 412-416, 438-442: some candidate accepts the peeked character
ScanAccept ==
    /\ lpc = "scan"
    /\ Peeked # None
    /\ FilterMapAccept(possibilities, Peeked[1]) # <<>>
    /\ possibilities' = FilterMapAccept(possibilities, Peeked[1])
    /\ characters_read_so_far' = Append(characters_read_so_far, Peeked[1])
    /\ PeekAndConsume
    /\ UNCHANGED <<input, found_invalid_token, lpc, tokBuf, emitted, pstack, pret, parse_result, visits>>

\* mutant: the error token is returned but found_invalid_token is not set
ScanInvalidCharacter_FlagNotSet ==
    /\ lpc = "scan"
    /\ Peeked # None
    /\ FilterMapAccept(possibilities, Peeked[1]) = <<>>
    /\ characters_read_so_far = <<>>
    /\ found_invalid_token' = FALSE
    /\ NextReturn(Some(Tok("Error", <<"Invalid character: ", Peeked[1]>>)))
    /\ PeekOnly
    /\ UNCHANGED <<input, pstack, pret, parse_result, visits>>

\* 417-424
ScanInvalidCharacter ==
    /\ lpc = "scan"
    /\ Peeked # None
    /\ FilterMapAccept(possibilities, Peeked[1]) = <<>>
    /\ characters_read_so_far = <<>>
    /\ found_invalid_token' = TRUE
    /\ NextReturn(Some(Tok("Error", <<"Invalid character: ", Peeked[1]>>)))
    /\ PeekOnly
    /\ UNCHANGED <<input, pstack, pret, parse_result, visits>>

\* mutant: the character that ends the token is taken from the source
ScanComplete_ConsumesRejected ==
    /\ lpc = "scan"
    /\ Peeked # None
    /\ FilterMapAccept(possibilities, Peeked[1]) = <<>>
    /\ characters_read_so_far # <<>>
    /\ ~FirstCompleted(possibilities).panic
    /\ FirstCompleted(possibilities).tok # None
    /\ NextReturn(FirstCompleted(possibilities).tok)
    /\ PeekAndConsume
    /\ UNCHANGED <<input, found_invalid_token, pstack, pret, parse_result, visits>>

\* 425-431
ScanComplete ==
    /\ lpc = "scan"
    /\ Peeked # None
    /\ FilterMapAccept(possibilities, Peeked[1]) = <<>>
    /\ characters_read_so_far # <<>>
    /\ ~FirstCompleted(possibilities).panic
    /\ FirstCompleted(possibilities).tok # None
    /\ NextReturn(FirstCompleted(possibilities).tok)
    /\ PeekOnly
    /\ UNCHANGED <<input, found_invalid_token, pstack, pret, parse_result, visits>>

\* 432-437
ScanInvalidToken ==
    /\ lpc = "scan"
    /\ Peeked # None
    /\ FilterMapAccept(possibilities, Peeked[1]) = <<>>
    /\ characters_read_so_far # <<>>
    /\ ~FirstCompleted(possibilities).panic
    /\ FirstCompleted(possibilities).tok = None
    /\ found_invalid_token' = TRUE
    /\ NextReturn(Some(Tok("Error",
           <<"Invalid token: ">> \o characters_read_so_far \o <<Peeked[1]>>)))
    /\ PeekOnly
    /\ UNCHANGED <<input, pstack, pret, parse_result, visits>>

\* 425-430 with 207/243: an unwrap() inside complete() panics, the process aborts
ScanPanic ==
    /\ lpc = "scan"
    /\ Peeked # None
    /\ FilterMapAccept(possibilities, Peeked[1]) = <<>>
    /\ characters_read_so_far # <<>>
    /\ FirstCompleted(possibilities).panic
    /\ lpc' = "panic"
    /\ PeekOnly
    /\ UNCHANGED <<input, found_invalid_token, possibilities, characters_read_so_far,
                   tokBuf, emitted, pstack, pret, parse_result, visits>>

\* 412, 444: the source is exhausted, the while-let ends
ScanEndOfInput ==
    /\ lpc = "scan"
    /\ Peeked = None
    /\ NextReturn(None)
    /\ PeekOnly
    /\ UNCHANGED <<input, found_invalid_token, pstack, pret, parse_result, visits>>

TokenIteratorNext ==
    \/ NextAfterInvalid
    \/ NextEnter
    \/ SkipWhitespace
    \/ BeginToken
    \/ ScanAccept
    \/ ScanInvalidCharacter
    \/ ScanComplete
    \/ ScanInvalidToken
    \/ ScanPanic
    \/ ScanEndOfInput

(***************************************************************************)
(* Inputs of the tokenizer                                                 *)
(***************************************************************************)
LexAlphabet == {"i", "f", "1", ".", "!", "\"", "\\", "-", ">", " "}

RECURSIVE SeqsUpTo(_, _)
SeqsUpTo(S, n) ==
    IF n = 0 THEN {<<>>}
    ELSE LET R == SeqsUpTo(S, n - 1)
         IN R \cup {Append(r, c) : r \in {q \in R : Len(q) = n - 1}, c \in S}

Chars_lettuce == <<"l","e","t","t","u","c","e">>
Chars_at == <<"@">>

\* string literals with escapes: "\\"" followed by a space, "\"" followed by a space
Chars_escaped_backslash == <<"\"", "\\", "\\", "\"", "\"", " ">>
Chars_escaped_quote == <<"\"", "\\", "\"", "\"", " ">>

\* i128::MAX + 1 followed by a space
Chars_i128_overflow == SubSeq(I128MaxDigits, 1, Len(I128MaxDigits) - 1) \o <<"8", " ">>

\* the keyword and primitive-type keyword matchers, lexer.rs 326-345
Keywords ==
    {"Function", "Let", "Mut", "If", "Else", "I8", "I16", "I32", "I64", "Iptr",
     "U8", "U16", "U32", "U64", "Uptr", "F32", "F64", "Bool", "CharType",
     "StringType"}

\* characters that are not alphanumeric, not `_` and not `!`
KeywordFollowers == {" ", "(", ".", "\""}

\* each keyword followed by one such character
KeywordInputs == {ExactMatchString(k) \o <<c>> : k \in Keywords, c \in KeywordFollowers}

\* the punctuation and operator matchers, lexer.rs 309-325
PunctuationMarks ==
    {"LeftParen", "RightParen", "LeftBrace", "RightBrace", "LeftBracket",
     "RightBracket", "Comma", "Dot", "Colon", "Semicolon", "Plus", "Minus",
     "Star", "Slash", "Percent", "Arrow", "Equals"}

\* each punctuation mark followed by a whitespace character
PunctuationInputs == {ExactMatchString(m) \o <<" ">> : m \in PunctuationMarks}

NamedLexInputs ==
    { Chars_lettuce, Chars_lettuce \o <<" ">>, Chars_at, Chars_at \o <<" ", "1", " ">>,
      <<"\"", "a", "b", "c">>, <<"0", "0", "7", " ">>, <<"²", " ">>,
      <<"1", ".", "²", " ">> }
        \cup PunctuationInputs
        \cup { Chars_escaped_backslash, Chars_escaped_quote }
        \cup KeywordInputs
        \cup { Chars_i128_overflow }

LexInputs == SeqsUpTo(LexAlphabet, MaxLen) \cup NamedLexInputs

\* tokenize(): lexer.rs 448-453
tokenize(chars) ==
    /\ input = chars
    /\ pulled = 0
    /\ cpeek = None
    /\ found_invalid_token = FALSE
    /\ lpc = "idle"
    /\ possibilities = <<>>
    /\ characters_read_so_far = <<>>
    /\ tokBuf = None
    /\ emitted = <<>>

(***************************************************************************)
(* impl Display for Token, lexer.rs 55-104                                 *)
(***************************************************************************)
TokenDisplay(tok) ==
    CASE tok.type \in {"Identifier", "Integer", "Float", "Error"} ->
             <<"'">> \o tok.value \o <<"'">>
      [] tok.type = "MacroCall" -> <<"'">> \o tok.value \o <<"!", "'">>
      [] tok.type = "StringLiteral" -> <<"'", "\"">> \o tok.value \o <<"\"", "'">>
      [] OTHER -> <<"'">> \o ExactMatchString(tok.type) \o <<"'">>

(***************************************************************************)
(* SyntaxError, parser.rs 14-45, and Result                                *)
(***************************************************************************)
unexpected_token(tok) == [message |-> <<"Unexpected token: ">> \o TokenDisplay(tok)]
unexpected_end == [message |-> <<"Unexpected end of input">>]
\* mutant: every mismatch is reported as the end of the input
unexpected_AlwaysEnd(t) == unexpected_end

\* parser.rs 38-44
unexpected(t) == IF t # None THEN unexpected_token(t[1]) ELSE unexpected_end

Ok(v) == [ok |-> TRUE, val |-> v, err |-> unexpected_end]
Err(e) == [ok |-> FALSE, val |-> [node |-> "none"], err |-> e]

(***************************************************************************)
(* AST nodes, ast.rs 35-138                                                *)
(***************************************************************************)
List(items) == [node |-> "List", items |-> items]
IntegerLiteral(v) == [node |-> "IntegerLiteral", literal |-> v]
Type(t) == [node |-> "Type", tag |-> t]
IgnoreValue(e) == [node |-> "IgnoreValue", value |-> e]
ParameterDeclaration(n, t) ==
    [node |-> "ParameterDeclaration", name |-> n, parameter_type |-> t]
VariableDefinition(m, n, t, v) ==
    [node |-> "VariableDefinition", mutable |-> m, name |-> n,
     variable_type |-> t, value |-> v]
FunctionDefinition(n, ps, t, b) ==
    [node |-> "FunctionDefinition", name |-> n, parameters |-> ps,
     return_type |-> t, body |-> b]

\* the token to Type mapping of parse_type, parser.rs 161-175
TypeTokens == {"I8", "I16", "I32", "I64", "Iptr", "U8", "U16", "U32", "U64",
               "Uptr", "F32", "F64", "Bool", "CharType", "StringType"}
TypeOfToken(t) ==
    CASE t = "CharType" -> "Char" [] t = "StringType" -> "String" [] OTHER -> t

(***************************************************************************)
(* The parser as a machine over its call stack.  A frame is [fn, pc] plus  *)
(* the locals of the function.  Each step is one use of the token iterator *)
(* together with the control flow up to the next use, call or return.      *)
(***************************************************************************)
Top == pstack[Len(pstack)]
Rest == SubSeq(pstack, 1, Len(pstack) - 1)
At(f, p) == pstack # <<>> /\ Top.fn = f /\ Top.pc = p

\* the token iterator holds a value for peek()/next()
HasTok == tokBuf # None /\ lpc = "idle"
\* token_iterator.peek()
PeekTok == tokBuf[1]
PeekIs(t) == PeekTok # None /\ PeekTok[1].type = t

Goto(fr) == pstack' = Append(Rest, fr) /\ pret' = None
Call(fr, callee) == pstack' = Rest \o <<fr, callee>> /\ pret' = None
Return(r) == pstack' = Rest /\ pret' = Some(r)

Frame(f) == [fn |-> f, pc |-> "start"]
RepeatedItemFrame(parser_function, end) ==
    [fn |-> "parse_repeated_item", pc |-> "loop", parser_function |-> parser_function,
     end |-> end, items |-> <<>>]

\* number of end-of-sequence values next() has returned
NoneCount == Cardinality({i \in 1..Len(emitted) : emitted[i].result = None})

\* pcs at which the function is about to peek() or next()
TokenPcs == {"loop", "peek", "next", "name", "lparen", "arrow", "colon", "comma",
             "semi", "mut", "equals", "semicolon"}

\* Peekable<TokenIterator>: the slot is empty, so peek()/next() calls the tokenizer
PullToken ==
    /\ pstack # <<>> /\ Top.pc \in TokenPcs
    /\ tokBuf = None /\ lpc = "idle"
    /\ lpc' = "entry"
    /\ UNCHANGED <<input, pulled, cpeek, found_invalid_token, possibilities,
                   characters_read_so_far, tokBuf, emitted, pstack, pret, parse_result, visits>>

\* main.rs 33-42
Main ==
    /\ UNCHANGED <<lexvars, tokBuf, visits>>
    /\ \/ /\ At("main", "start")
          /\ Call([Top EXCEPT !.pc = "ret"], Frame("parse"))
          /\ UNCHANGED parse_result
       \/ /\ At("main", "ret")
          /\ parse_result' = pret
          /\ Goto([Top EXCEPT !.pc = "done"])

\* parser.rs 228-230
Parse ==
    /\ UNCHANGED <<lexvars, tokBuf, parse_result, visits>>
    /\ \/ /\ At("parse", "start")
          /\ Call([Top EXCEPT !.pc = "ret"], Frame("parse_program"))
       \/ /\ At("parse", "ret")
          /\ Return(pret[1])

\* parser.rs 223-226
ParseProgram ==
    /\ UNCHANGED <<lexvars, tokBuf, parse_result, visits>>
    /\ \/ /\ At("parse_program", "start")
          /\ Call([Top EXCEPT !.pc = "ret"], RepeatedItemFrame("parse_global_item", None))
       \/ /\ At("parse_program", "ret")
          /\ Return(IF pret[1].ok THEN Ok(pret[1].val) ELSE pret[1])

\* a local that is not assigned yet
NoNode == [node |-> "none"]

FunctionFrame ==
    [fn |-> "parse_function", pc |-> "next", name |-> <<>>, parameters |-> <<>>,
     return_type |-> NoNode]

\* the first pc of each item parser
ItemFrame(f) ==
    CASE f = "parse_global_item" -> [fn |-> f, pc |-> "peek"]
      [] f = "parse_statement" -> [fn |-> f, pc |-> "peek"]
      [] f = "parse_parameter_declaration" -> [fn |-> f, pc |-> "name", name |-> <<>>]

\* mutant: with no terminator the list also ends at a token that starts no item
TokenIsEnd_StopsAtForeignToken(token, end) ==
    token = end \/ (end = None /\ token # None /\ token[1].type # "Function")

\* parser.rs 70: token == end.as_ref()
TokenIsEnd(token, end) == token = end

\* mutant: the terminator is left in the token iterator
ParseRepeatedItem_TerminatorKept ==
    /\ UNCHANGED <<lexvars, parse_result, visits>>
    /\ \/ /\ At("parse_repeated_item", "loop") /\ HasTok
          /\ TokenIsEnd(PeekTok, Top.end)
          /\ tokBuf' = tokBuf
          /\ Return(Ok(List(Top.items)))
       \/ /\ At("parse_repeated_item", "loop") /\ HasTok
          /\ ~TokenIsEnd(PeekTok, Top.end) /\ PeekTok = None
          /\ UNCHANGED tokBuf
          /\ Return(Err(unexpected_end))
       \/ /\ At("parse_repeated_item", "loop") /\ HasTok
          /\ ~TokenIsEnd(PeekTok, Top.end) /\ PeekTok # None
          /\ UNCHANGED tokBuf
          /\ Call([Top EXCEPT !.pc = "ret"], ItemFrame(Top.parser_function))
       \/ /\ At("parse_repeated_item", "ret")
          /\ UNCHANGED tokBuf
          /\ IF pret[1].ok
             THEN Goto([Top EXCEPT !.pc = "loop", !.items = Append(@, pret[1].val)])
             ELSE Return(pret[1])

\* parser.rs 61-82; the Vec<Box<dyn AstNode>> it returns is the list node of
\* ast.rs 35
ParseRepeatedItem ==
    /\ UNCHANGED <<lexvars, parse_result, visits>>
    /\ \/ /\ At("parse_repeated_item", "loop") /\ HasTok
          /\ TokenIsEnd(PeekTok, Top.end)
          /\ tokBuf' = IF Top.end # None THEN None ELSE tokBuf
          /\ Return(Ok(List(Top.items)))
       \/ /\ At("parse_repeated_item", "loop") /\ HasTok
          /\ ~TokenIsEnd(PeekTok, Top.end) /\ PeekTok = None
          /\ UNCHANGED tokBuf
          /\ Return(Err(unexpected_end))
       \/ /\ At("parse_repeated_item", "loop") /\ HasTok
          /\ ~TokenIsEnd(PeekTok, Top.end) /\ PeekTok # None
          /\ UNCHANGED tokBuf
          /\ Call([Top EXCEPT !.pc = "ret"], ItemFrame(Top.parser_function))
       \/ /\ At("parse_repeated_item", "ret")
          /\ UNCHANGED tokBuf
          /\ IF pret[1].ok
             THEN Goto([Top EXCEPT !.pc = "loop", !.items = Append(@, pret[1].val)])
             ELSE Return(pret[1])

\* parser.rs 84-94
ParseGlobalItem ==
    /\ UNCHANGED <<lexvars, tokBuf, parse_result, visits>>
    /\ \/ /\ At("parse_global_item", "peek") /\ HasTok
          /\ PeekIs("Function")
          /\ Call([Top EXCEPT !.pc = "ret"], FunctionFrame)
       \/ /\ At("parse_global_item", "peek") /\ HasTok
          /\ ~PeekIs("Function")
          /\ Return(Err(unexpected(PeekTok)))
       \/ /\ At("parse_global_item", "ret")
          /\ Return(pret[1])

\* mutant: an exhausted stream is reported like a wrong token
MustBeError_EndAsToken ==
    IF PeekTok = None THEN unexpected_token(Tok("Error", <<>>))
    ELSE unexpected_token(PeekTok[1])

\* next_must_be!, parser.rs 47-57: the error for a token that is not the expected one
MustBeError == IF PeekTok = None THEN unexpected_end ELSE unexpected_token(PeekTok[1])

\* parser.rs 198-221
ParseFunction ==
    /\ UNCHANGED <<lexvars, parse_result, visits>>
    /\ \/ /\ At("parse_function", "next") /\ HasTok
          /\ tokBuf' = None
          /\ Goto([Top EXCEPT !.pc = IF PeekIs("Function") THEN "name" ELSE "panic"])
       \/ /\ At("parse_function", "name") /\ HasTok
          /\ PeekIs("Identifier")
          /\ tokBuf' = None
          /\ Goto([Top EXCEPT !.pc = "lparen", !.name = PeekTok[1].value])
       \/ /\ At("parse_function", "name") /\ HasTok
          /\ ~PeekIs("Identifier")
          /\ UNCHANGED tokBuf
          /\ Return(Err(unexpected(PeekTok)))
       \/ /\ At("parse_function", "lparen") /\ HasTok
          /\ tokBuf' = None
          /\ IF PeekIs("LeftParen")
             THEN Call([Top EXCEPT !.pc = "params_ret"],
                       RepeatedItemFrame("parse_parameter_declaration",
                                         Some(Mark("RightParen"))))
             ELSE Return(Err(MustBeError))
       \/ /\ At("parse_function", "params_ret")
          /\ UNCHANGED tokBuf
          /\ IF pret[1].ok
             THEN Goto([Top EXCEPT !.pc = "arrow", !.parameters = pret[1].val.items])
             ELSE Return(pret[1])
       \/ /\ At("parse_function", "arrow") /\ HasTok
          /\ tokBuf' = None
          /\ IF PeekIs("Arrow")
             THEN Call([Top EXCEPT !.pc = "type_ret"], [fn |-> "parse_type", pc |-> "next"])
             ELSE Return(Err(MustBeError))
       \/ /\ At("parse_function", "type_ret")
          /\ UNCHANGED tokBuf
          /\ IF pret[1].ok
             THEN Call([Top EXCEPT !.pc = "body_ret", !.return_type = pret[1].val],
                       [fn |-> "parse_block", pc |-> "next"])
             ELSE Return(pret[1])
       \/ /\ At("parse_function", "body_ret")
          /\ UNCHANGED tokBuf
          /\ IF pret[1].ok
             THEN Return(Ok(FunctionDefinition(Top.name, Top.parameters,
                                               Top.return_type, pret[1].val)))
             ELSE Return(pret[1])

\* parser.rs 182-196
ParseParameterDeclaration ==
    /\ UNCHANGED <<lexvars, parse_result, visits>>
    /\ \/ /\ At("parse_parameter_declaration", "name") /\ HasTok
          /\ tokBuf' = None
          /\ IF PeekIs("Identifier")
             THEN Goto([Top EXCEPT !.pc = "colon", !.name = PeekTok[1].value])
             ELSE Return(Err(MustBeError))
       \/ /\ At("parse_parameter_declaration", "colon") /\ HasTok
          /\ tokBuf' = None
          /\ IF PeekIs("Colon")
             THEN Call([Top EXCEPT !.pc = "type_ret"], [fn |-> "parse_type", pc |-> "next"])
             ELSE Return(Err(MustBeError))
       \/ /\ At("parse_parameter_declaration", "type_ret")
          /\ UNCHANGED tokBuf
          /\ IF pret[1].ok
             THEN Goto([fn |-> "parse_parameter_declaration", pc |-> "comma",
                        name |-> Top.name, parameter_type |-> pret[1].val])
             ELSE Return(pret[1])
       \/ /\ At("parse_parameter_declaration", "comma") /\ HasTok
          /\ tokBuf' = IF PeekIs("Comma") THEN None ELSE tokBuf
          /\ Return(Ok(ParameterDeclaration(Top.name, Top.parameter_type)))

\* parser.rs 158-180
ParseType ==
    /\ UNCHANGED <<lexvars, parse_result, visits>>
    /\ At("parse_type", "next") /\ HasTok
    /\ tokBuf' = None
    /\ IF PeekTok # None /\ PeekTok[1].type \in TypeTokens
       THEN Return(Ok(Type(TypeOfToken(PeekTok[1].type))))
       ELSE Return(Err(MustBeError))

\* parser.rs 152-156
ParseBlock ==
    /\ UNCHANGED <<lexvars, parse_result, visits>>
    /\ \/ /\ At("parse_block", "next") /\ HasTok
          /\ tokBuf' = None
          /\ IF PeekIs("LeftBrace")
             THEN Call([Top EXCEPT !.pc = "ret"],
                       RepeatedItemFrame("parse_statement", Some(Mark("RightBrace"))))
             ELSE Return(Err(MustBeError))
       \/ /\ At("parse_block", "ret")
          /\ UNCHANGED tokBuf
          /\ Return(IF pret[1].ok THEN Ok(pret[1].val) ELSE pret[1])

\* mutant: an Error token is taken for an expression
ParseExpression_ErrorAsLiteral ==
    /\ UNCHANGED <<lexvars, parse_result, visits>>
    /\ At("parse_expression", "next") /\ HasTok
    /\ tokBuf' = None
    /\ IF PeekIs("Integer") \/ PeekIs("Error")
       THEN Return(Ok(IntegerLiteral(PeekTok[1].value)))
       ELSE Return(Err(MustBeError))

\* parser.rs 124-132
ParseExpression ==
    /\ UNCHANGED <<lexvars, parse_result, visits>>
    /\ At("parse_expression", "next") /\ HasTok
    /\ tokBuf' = None
    /\ IF PeekIs("Integer")
       THEN Return(Ok(IntegerLiteral(PeekTok[1].value)))
       ELSE Return(Err(MustBeError))

\* mutant: the expression is wrapped whether or not a semicolon follows
StatementNode_AlwaysIgnored(expression, semicolon_follows) == IgnoreValue(expression)

\* parser.rs 140-145: the node of an expression statement
StatementNode(expression, semicolon_follows) ==
    IF semicolon_follows THEN IgnoreValue(expression) ELSE expression

\* parser.rs 134-150
ParseStatement ==
    /\ UNCHANGED <<lexvars, parse_result, visits>>
    /\ \/ /\ At("parse_statement", "peek") /\ HasTok
          /\ PeekIs("Let")
          /\ UNCHANGED tokBuf
          /\ Call([Top EXCEPT !.pc = "ret"],
                  [fn |-> "parse_variable_definition", pc |-> "next", mutable |-> FALSE,
                   name |-> <<>>, variable_type |-> NoNode, value |-> NoNode])
       \/ /\ At("parse_statement", "peek") /\ HasTok
          /\ PeekTok # None /\ ~PeekIs("Let")
          /\ UNCHANGED tokBuf
          /\ Call([fn |-> "parse_statement", pc |-> "expr_ret", expression |-> NoNode],
                  [fn |-> "parse_expression", pc |-> "next"])
       \/ /\ At("parse_statement", "ret")
          /\ UNCHANGED tokBuf
          /\ Return(pret[1])
       \/ /\ At("parse_statement", "expr_ret")
          /\ UNCHANGED tokBuf
          /\ IF pret[1].ok
             THEN Goto([Top EXCEPT !.pc = "semi", !.expression = pret[1].val])
             ELSE Return(pret[1])
       \/ /\ At("parse_statement", "semi") /\ HasTok
          /\ PeekIs("Semicolon")
          /\ tokBuf' = None
          /\ Return(Ok(StatementNode(Top.expression, TRUE)))
       \/ /\ At("parse_statement", "semi") /\ HasTok
          /\ ~PeekIs("Semicolon")
          /\ UNCHANGED tokBuf
          /\ Return(Ok(StatementNode(Top.expression, FALSE)))

\* parser.rs 96-122
ParseVariableDefinition ==
    /\ UNCHANGED <<lexvars, parse_result, visits>>
    /\ \/ /\ At("parse_variable_definition", "next") /\ HasTok
          /\ tokBuf' = None
          /\ IF PeekIs("Let")
             THEN Goto([Top EXCEPT !.pc = "mut"])
             ELSE Return(Err(MustBeError))
       \/ /\ At("parse_variable_definition", "mut") /\ HasTok
          /\ tokBuf' = IF PeekIs("Mut") THEN None ELSE tokBuf
          /\ Goto([Top EXCEPT !.pc = "name", !.mutable = PeekIs("Mut")])
       \/ /\ At("parse_variable_definition", "name") /\ HasTok
          /\ tokBuf' = None
          /\ IF PeekIs("Identifier")
             THEN Goto([Top EXCEPT !.pc = "colon", !.name = PeekTok[1].value])
             ELSE Return(Err(MustBeError))
       \/ /\ At("parse_variable_definition", "colon") /\ HasTok
          /\ tokBuf' = None
          /\ IF PeekIs("Colon")
             THEN Call([Top EXCEPT !.pc = "type_ret"], [fn |-> "parse_type", pc |-> "next"])
             ELSE Return(Err(MustBeError))
       \/ /\ At("parse_variable_definition", "type_ret")
          /\ UNCHANGED tokBuf
          /\ IF pret[1].ok
             THEN Goto([Top EXCEPT !.pc = "equals", !.variable_type = pret[1].val])
             ELSE Return(pret[1])
       \/ /\ At("parse_variable_definition", "equals") /\ HasTok
          /\ tokBuf' = None
          /\ IF PeekIs("Equals")
             THEN Call([Top EXCEPT !.pc = "value_ret"],
                       [fn |-> "parse_expression", pc |-> "next"])
             ELSE Return(Err(MustBeError))
       \/ /\ At("parse_variable_definition", "value_ret")
          /\ UNCHANGED tokBuf
          /\ IF pret[1].ok
             THEN Goto([Top EXCEPT !.pc = "semicolon", !.value = pret[1].val])
             ELSE Return(pret[1])
       \/ /\ At("parse_variable_definition", "semicolon") /\ HasTok
          /\ tokBuf' = None
          /\ IF PeekIs("Semicolon")
             THEN Return(Ok(VariableDefinition(Top.mutable, Top.name,
                                               Top.variable_type, Top.value)))
             ELSE Return(Err(MustBeError))

Parser ==
    \/ PullToken
    \/ Main
    \/ Parse
    \/ ParseProgram
    \/ ParseRepeatedItem
    \/ ParseGlobalItem
    \/ ParseFunction
    \/ ParseParameterDeclaration
    \/ ParseType
    \/ ParseBlock
    \/ ParseStatement
    \/ ParseVariableDefinition
    \/ ParseExpression

(***************************************************************************)
(* Inputs of the whole program: source text made of words                  *)
(***************************************************************************)
\* the words, each followed by one space
RECURSIVE Render(_)
Render(ws) == IF ws = <<>> THEN <<>> ELSE Head(ws) \o <<" ">> \o Render(Tail(ws))

\* the same text without the final space
RenderTight(ws) == IF ws = <<>> THEN <<>> ELSE SubSeq(Render(ws), 1, Len(Render(ws)) - 1)

\* function f ( a : i8 , ) -> i8 { let mut x : i8 = 1 ; 1 ; 1 }
BaseProgram ==
    << ExactMatchString("Function"), <<"f">>, <<"(">>, <<"a">>, <<":">>,
       <<"i", "8">>, <<",">>, <<")">>, <<"-", ">">>, <<"i", "8">>, <<"{">>,
       <<"l", "e", "t">>, <<"m", "u", "t">>, <<"x">>, <<":">>, <<"i", "8">>, <<"=">>,
       <<"1">>, <<";">>, <<"1">>, <<";">>, <<"1">>, <<"}">> >>

TailWords == { <<"1">>, <<"}">>, <<"@">>, ExactMatchString("Function") }

\* function add(a: i32, b: i32) -> i32 { let sum: i32 = 1; }
Chars_add_program ==
    ExactMatchString("Function") \o <<" ", "a", "d", "d", "(", "a", ":", " ">>
    \o <<"i", "3", "2", ",", " ", "b", ":", " ", "i", "3", "2", ")", " ", "-", ">", " ">>
    \o <<"i", "3", "2", " ", "{", " ", "l", "e", "t", " ", "s", "u", "m", ":", " ">>
    \o <<"i", "3", "2", " ", "=", " ", "1", ";", " ", "}">>

\* function 123
Chars_function_123 == ExactMatchString("Function") \o <<" ", "1", "2", "3">>

\* function foo(
Chars_function_foo == ExactMatchString("Function") \o <<" ", "f", "o", "o", "(">>

NamedParseInputs ==
    { Chars_add_program, Chars_add_program \o <<"\n">>,
      Chars_function_123, Chars_function_123 \o <<"\n">>,
      Chars_function_foo, Chars_function_foo \o <<"\n">>,
      Chars_at, <<".", " ">>, ExactMatchString("Function") \o <<" ", "1", "a", " ">> }

ParseInputs ==
    { Render(SubSeq(BaseProgram, 1, k) \o t) :
          k \in 0..Len(BaseProgram), t \in SeqsUpTo(TailWords, MaxTail) }
    \cup { RenderTight(SubSeq(BaseProgram, 1, k)) : k \in 0..Len(BaseProgram) }
    \cup { Render(BaseProgram \o BaseProgram) }
    \cup NamedParseInputs

\* a caller that keeps calling next() on the token iterator, also after the
\* end of the sequence (the Iterator protocol of lexer.rs 352-355)
Consumer ==
    /\ At("consumer", "next") /\ HasTok
    /\ tokBuf' = None
    /\ Goto([Top EXCEPT !.pc = IF NoneCount > MaxExtraCalls THEN "done" ELSE "next"])
    /\ UNCHANGED <<lexvars, parse_result, visits>>

\* the tokenizer under a caller of next()
InitLex ==
    /\ \E chars \in LexInputs : tokenize(chars)
    /\ pstack = << [fn |-> "consumer", pc |-> "next"] >>
    /\ pret = None
    /\ parse_result = None
    /\ visits = <<>>

\* main.rs 26-34
InitMain ==
    /\ \E chars \in ParseInputs : tokenize(chars)
    /\ pstack = << Frame("main") >>
    /\ pret = None
    /\ parse_result = None
    /\ visits = <<>>

(***************************************************************************)
(* AstNode::apply, ast.rs 15-35 and the impl_ast_node! invocations         *)
(***************************************************************************)
\* mutant: the Type implementation is generated with the list method
VisitMethodOf_TypeAsList(kind) ==
    CASE kind = "List" -> "visit_list"
      [] kind = "VariableDefinition" -> "visit_variable_definition"
      [] kind = "Type" -> "visit_list"
      [] kind = "ParameterDeclaration" -> "visit_parameter_declaration"
      [] kind = "FunctionDefinition" -> "visit_function_definition"
      [] kind = "IgnoreValue" -> "visit_ignore_value"
      [] kind = "IntegerLiteral" -> "visit_integer_literal"

\* the $visit_method each impl_ast_node! invocation passes for its $type
\* (ast.rs 35, 61, 82, 99, 125, 136, 138)
VisitMethodOf(kind) ==
    CASE kind = "List" -> "visit_list"
      [] kind = "VariableDefinition" -> "visit_variable_definition"
      [] kind = "Type" -> "visit_type"
      [] kind = "ParameterDeclaration" -> "visit_parameter_declaration"
      [] kind = "FunctionDefinition" -> "visit_function_definition"
      [] kind = "IgnoreValue" -> "visit_ignore_value"
      [] kind = "IntegerLiteral" -> "visit_integer_literal"

\* a visitor method of a visitor that records what it is called with, ast.rs 5-13
Visit(method, argument) == visits' = Append(visits, [method |-> method, argument |-> argument])

\* apply, ast.rs 27-29: visitor.$visit_method(self), then return
Apply ==
    /\ At("apply", "start")
    /\ Visit(VisitMethodOf(Top.self.node), Top.self)
    /\ pstack' = Append(Rest, [Top EXCEPT !.pc = "done"])
    /\ UNCHANGED <<lexvars, tokBuf, pret, parse_result>>

\* the nodes apply is called on: every kind, with children of every kind
\* (a child is a Box<dyn AstNode>, ast.rs 40-43, 86-87, 103-106, 128)
AstTypes == {Type(TypeOfToken(t)) : t \in TypeTokens}
AstLiterals == {IntegerLiteral(<<"0">>), IntegerLiteral(<<"1">>), IntegerLiteral(<<"4", "2">>)}
AstLeaves == AstTypes \cup AstLiterals
AstIgnoreValues == {IgnoreValue(e) : e \in AstLeaves}
AstParameterDeclarations ==
    {ParameterDeclaration(n, t) : n \in {<<"a">>, <<"b">>}, t \in {Type("I8"), Type("Bool"), IntegerLiteral(<<"1">>)}}
AstVariableDefinitions ==
    {VariableDefinition(m, <<"x">>, t, v) :
        m \in BOOLEAN, t \in {Type("I8"), Type("F64")},
        v \in {IntegerLiteral(<<"1">>), IgnoreValue(IntegerLiteral(<<"1">>)), Type("I8")}}
AstStatements ==
    {IntegerLiteral(<<"1">>), IgnoreValue(IntegerLiteral(<<"1">>)),
     VariableDefinition(TRUE, <<"x">>, Type("I8"), IntegerLiteral(<<"1">>))}
AstLists == {List(items) : items \in SeqsUpTo(AstStatements, MaxItems)}
AstFunctionDefinitions ==
    {FunctionDefinition(<<"f">>, ps, t, b) :
        ps \in SeqsUpTo({ParameterDeclaration(<<"a">>, Type("I8"))}, MaxItems),
        t \in {Type("I8"), Type("Bool")},
        b \in AstLists}
AstNodes ==
    AstLeaves \cup AstIgnoreValues \cup AstParameterDeclarations
        \cup AstVariableDefinitions \cup AstLists \cup AstFunctionDefinitions
        \cup {List(<<f>>) : f \in AstFunctionDefinitions}

\* a node and a fresh recording visitor, about to call node.apply(&mut visitor)
InitAst ==
    /\ tokenize(<<>>)
    /\ \E node \in AstNodes : pstack = << [fn |-> "apply", pc |-> "start", self |-> node] >>
    /\ pret = None
    /\ parse_result = None
    /\ visits = <<>>

NextAst == Apply

SpecAst == InitAst /\ [][NextAst]_vars

NextLex == TokenIteratorNext \/ PullToken \/ Consumer

SpecLex == InitLex /\ [][NextLex]_vars

Init == InitLex \/ InitMain

Next == TokenIteratorNext \/ Consumer \/ Parser

Spec == Init /\ [][Next]_vars

\* the sources given to main for the termination runs: every prefix of
\* BaseProgram with and without a final space, two functions, the named sources
LiveParseInputs ==
    { Render(SubSeq(BaseProgram, 1, k)) : k \in 0..Len(BaseProgram) }
    \cup { RenderTight(SubSeq(BaseProgram, 1, k)) : k \in 0..Len(BaseProgram) }
    \cup { Render(BaseProgram \o BaseProgram) }
    \cup NamedParseInputs

\* main.rs 26-34, or the caller that keeps calling next()
InitLive ==
    /\ \/ /\ \E chars \in LiveParseInputs : tokenize(chars)
          /\ pstack = << Frame("main") >>
       \/ /\ \E chars \in NamedLexInputs : tokenize(chars)
          /\ pstack = << [fn |-> "consumer", pc |-> "next"] >>
    /\ pret = None
    /\ parse_result = None
    /\ visits = <<>>

\* the program is one thread that keeps executing: a step that can be taken is taken
SpecLive == InitLive /\ [][Next]_vars /\ WF_vars(Next)

(***************************************************************************)
(* Properties                                                              *)
(***************************************************************************)
\* the tokens next() has returned so far, in order
RECURSIVE TokensOf(_)
TokensOf(es) ==
    IF es = <<>> THEN <<>> ELSE Head(es).result \o TokensOf(Tail(es))

EmittedTokens == TokensOf(emitted)

\* the characters consumed for the tokens returned so far
RECURSIVE TextsOf(_)
TextsOf(es) ==
    IF es = <<>> THEN <<>>
    ELSE (IF Head(es).result # None THEN Head(es).text ELSE <<>>) \o TextsOf(Tail(es))

NonWhitespace(s) == SelectSeq(s, LAMBDA c : ~is_whitespace(c))

IsErrorEntry(e) == e.result # None /\ e.result[1].type = "Error"
IsTokenEntry(e) == e.result # None /\ e.result[1].type # "Error"
ErrorEmitted == \E i \in 1..Len(emitted) : IsErrorEntry(emitted[i])

ConsumerDone == At("consumer", "done")
MainDone == At("main", "done")

\* C1: whenever next() has returned, the texts of the tokens emitted so far,
\* concatenated, are exactly the non-whitespace characters consumed from the
\* source so far (so at the end of the sequence they reconstruct the input).
C1_TokensReconstructInput ==
    (lpc = "idle" /\ pstack # <<>> /\ Top.fn = "consumer")
        => NonWhitespace(TextsOf(emitted)) = NonWhitespace(SubSeq(input, 1, Consumed))

\* a matcher fed a whole text from its initial state: Some(matcher) or None
RECURSIVE RunMatcher(_, _)
RunMatcher(m, s) ==
    IF s = <<>> THEN Some(m)
    ELSE IF Accept(m, Head(s)) = None THEN None
         ELSE RunMatcher(Accept(m, Head(s))[1], Tail(s))

\* the k-th registered matcher accepts all of s and then reports a token
CompletesOn(k, s) ==
    /\ RunMatcher(NewPossibilities[k], s) # None
    /\ ~Complete(RunMatcher(NewPossibilities[k], s)[1]).panic
    /\ Complete(RunMatcher(NewPossibilities[k], s)[1]).tok # None

TokenOn(k, s) == Complete(RunMatcher(NewPossibilities[k], s)[1]).tok[1]

Registered == 1..Len(NewPossibilities)

\* C2: maximal munch.  Every non-error token returned by next() was matched
\* on the input text at its position, no longer text at that position is
\* accepted and completed by any matcher, and the token is the one reported
\* by the earliest registered matcher that completes on the matched text.
\* Each token is examined in the state in which next() has just returned it.
C2_MaximalMunch ==
    (HasTok /\ emitted # <<>> /\ IsTokenEntry(emitted[Len(emitted)])) =>
        LET at == emitted[Len(emitted)].at
            text == emitted[Len(emitted)].text
        IN /\ text # <<>>
           /\ text = SubSeq(input, at + 1, at + Len(text))
           /\ \A L \in (at + Len(text) + 1)..Len(input) :
                  \A k \in Registered : ~CompletesOn(k, SubSeq(input, at + 1, L))
           /\ \E k \in Registered :
                  /\ CompletesOn(k, text)
                  /\ TokenOn(k, text) = emitted[Len(emitted)].result[1]
                  /\ \A j \in 1..(k - 1) : ~CompletesOn(j, text)

\* C2 witness: a tie (`if` completes as keyword and as identifier) was resolved
\* with more input following the token
C2_TieResolved ==
    \E i \in 1..Len(emitted) :
        /\ emitted[i].result = Some(Mark("If"))
        /\ CompletesOn(21, emitted[i].text)
        /\ emitted[i].at + Len(emitted[i].text) < Len(input)

\* C3: `lettuce` tokenizes as exactly one token, Identifier("lettuce").
C3_LettuceIsOneIdentifier ==
    (input = Chars_lettuce /\ ConsumerDone)
        => EmittedTokens = << Tok("Identifier", Chars_lettuce) >>

Chars_add == <<"a", "d", "d">>
Chars_sum == <<"s", "u", "m">>

\* the token sequence C4 states
C4Tokens ==
    << Mark("Function"), Tok("Identifier", Chars_add), Mark("LeftParen"),
       Tok("Identifier", <<"a">>), Mark("Colon"), Mark("I32"), Mark("Comma"),
       Tok("Identifier", <<"b">>), Mark("Colon"), Mark("I32"), Mark("Comma"),
       Mark("RightParen"), Mark("Arrow"), Mark("I32"), Mark("LeftBrace"),
       Mark("Let"), Tok("Identifier", Chars_sum), Mark("Colon"), Mark("I32"),
       Mark("Equals"), Tok("Integer", <<"1">>), Mark("Semicolon"), Mark("RightBrace") >>

\* the tree C4 states
C4Program ==
    List(<< FunctionDefinition(Chars_add,
                << ParameterDeclaration(<<"a">>, Type("I32")),
                   ParameterDeclaration(<<"b">>, Type("I32")) >>,
                Type("I32"),
                List(<< VariableDefinition(FALSE, Chars_sum, Type("I32"),
                                           IntegerLiteral(<<"1">>)) >>)) >>)

\* C4: the `add` program tokenizes to the stated sequence and parse returns Ok
\* with the stated Program.
C4_AddProgramRoundTrip ==
    (input = Chars_add_program /\ MainDone)
        => /\ EmittedTokens = C4Tokens
           /\ parse_result[1].ok
           /\ parse_result[1].val = C4Program

\* C5: `function 123` makes parse return the SyntaxError "Unexpected token: '123'".
C5_Function123UnexpectedInteger ==
    (input = Chars_function_123 /\ MainDone)
        => /\ ~parse_result[1].ok
           /\ parse_result[1].err = unexpected_token(Tok("Integer", <<"1", "2", "3">>))

\* C6: `function foo(` makes parse return the SyntaxError "Unexpected end of input".
C6_FunctionFooUnexpectedEnd ==
    (input = Chars_function_foo /\ MainDone)
        => /\ ~parse_result[1].ok
           /\ parse_result[1].err.message = <<"Unexpected end of input">>

\* C6 witness: main has the result of parsing `function foo(`
C6_FunctionFooParsed ==
    input = Chars_function_foo /\ MainDone /\ Len(EmittedTokens) = 2

\* C7: on the input `@` the first call of next() returns the Error token for
\* the invalid character and every later call returns None.
C7_AtYieldsOneErrorToken ==
    input = Chars_at =>
        /\ \A i \in 1..Len(emitted) :
               emitted[i].result =
                   IF i = 1 THEN Some(Tok("Error", <<"Invalid character: ", "@">>))
                   ELSE None
        /\ ConsumerDone => Len(EmittedTokens) = 1

\* C7 witness: next() was called again after the error token for `@`
C7_AtCalledAgain ==
    input = Chars_at /\ ConsumerDone /\ Len(emitted) >= 3

\* C8: once next() has returned an Error token, no step pulls or consumes a
\* character of the source, and every value next() returns is None.
C8_ErrorIsTerminal ==
    [][ErrorEmitted =>
           /\ pulled' = pulled
           /\ cpeek' = cpeek
           /\ emitted' # emitted => emitted'[Len(emitted')].result = None]_vars

\* C8 witness: next() returned None after an error although input remains
C8_NoneAfterErrorWithInputLeft ==
    /\ ErrorEmitted
    /\ emitted[Len(emitted)].result = None
    /\ pulled < Len(input)

\* C9: a call of next() that consumed characters for a token on which no
\* matcher completes returns an Error token.
C9_IncompleteTokenIsError ==
    \A i \in 1..Len(emitted) :
        (emitted[i].text # <<>>
         /\ \A k \in Registered : ~CompletesOn(k, emitted[i].text))
            => IsErrorEntry(emitted[i])

\* source texts with a complete function followed by a token that starts no item
LeftoverInputs ==
    { Render(BaseProgram \o t) :
          t \in { u \in SeqsUpTo(TailWords, MaxTail) :
                      u # <<>> /\ Head(u) # ExactMatchString("Function") } }

\* C10: when parse returns Ok the token stream is exhausted (the next peek is
\* the end of the stream and nothing is buffered), and a token that follows a
\* complete top-level item and is not Function makes parse return an error.
C10_OkOnlyAtEndOfStream ==
    MainDone =>
        /\ parse_result[1].ok =>
               /\ tokBuf = Some(None)
               /\ emitted[Len(emitted)].result = None
               /\ Len(EmittedTokens) = Len(emitted) - 1
        /\ input \in LeftoverInputs => ~parse_result[1].ok

\* C10 witness: parse returned Ok with at least one function
C10_ProgramParsed ==
    MainDone /\ parse_result[1].ok /\ parse_result[1].val.items # <<>>

\* C11: the parser is fail-fast.  Once a parser function has returned an error
\* the tokenizer is not called again and nothing is taken from the token
\* iterator, the error is handed up unchanged and becomes the result of parse;
\* that result carries no tree, and its message names the mismatching token
\* (the last value the tokenizer returned) or the end of the input.
C11_FailFastStep ==
    (pret # None /\ ~pret[1].ok) =>
        /\ emitted' = emitted /\ lpc' = lpc /\ tokBuf' = tokBuf /\ pulled' = pulled
        /\ pret' = pret \/ (pret' = None /\ parse_result' = pret)

C11_FailFast ==
    /\ [][C11_FailFastStep]_vars
    /\ [](MainDone /\ ~parse_result[1].ok =>
            /\ parse_result[1].val = NoNode
            /\ LET last == emitted[Len(emitted)].result
               IN parse_result[1].err.message =
                      IF last = None
                      THEN <<"Unexpected end of input">>
                      ELSE <<"Unexpected token: ">> \o TokenDisplay(last[1]))

\* C11 witness: parse failed on a token while source text was still unread
C11_FailedOnTokenWithInputLeft ==
    /\ MainDone /\ ~parse_result[1].ok
    /\ emitted[Len(emitted)].result # None
    /\ pulled < Len(input)

\* C12: at the end of an expression statement, a peeked Semicolon is consumed
\* and the statement is IgnoreValue(expression); any other peeked value is
\* left in the token iterator and the statement is the expression itself.
C12_TrailingSemicolonStep ==
    (At("parse_statement", "semi") /\ HasTok) =>
        /\ pstack' = Rest
        /\ IF PeekTok = Some(Mark("Semicolon"))
           THEN /\ tokBuf' = None
                /\ pret' = Some(Ok(IgnoreValue(Top.expression)))
           ELSE /\ tokBuf' = tokBuf
                /\ pret' = Some(Ok(Top.expression))

C12_TrailingSemicolon ==
    /\ [][C12_TrailingSemicolonStep]_vars
    /\ [](At("parse_statement", "semi") => Top.expression.node = "IntegerLiteral")

\* C12 witness: a block with a statement of each form was parsed
C12_BothFormsParsed ==
    /\ MainDone /\ parse_result[1].ok /\ parse_result[1].val.items # <<>>
    /\ LET body == parse_result[1].val.items[1].body.items
       IN /\ \E i \in 1..Len(body) : body[i].node = "IgnoreValue"
          /\ \E i \in 1..Len(body) : body[i].node = "IntegerLiteral"

\* C13: for a node of every kind, apply(visitor) makes exactly one visitor
\* call: the visit method of the node's own kind, with the node itself as the
\* argument; no child of the node is visited.
C13_OwnMethod(node) ==
    CASE node.node = "List" -> "visit_list"
      [] node.node = "VariableDefinition" -> "visit_variable_definition"
      [] node.node = "Type" -> "visit_type"
      [] node.node = "ParameterDeclaration" -> "visit_parameter_declaration"
      [] node.node = "FunctionDefinition" -> "visit_function_definition"
      [] node.node = "IgnoreValue" -> "visit_ignore_value"
      [] node.node = "IntegerLiteral" -> "visit_integer_literal"
      [] OTHER -> "no such kind"

C13_ApplyVisitsSelfOnce ==
    /\ At("apply", "start") => visits = <<>>
    /\ At("apply", "done") =>
          visits = << [method |-> C13_OwnMethod(Top.self), argument |-> Top.self] >>

\* C13 witness: apply has returned for a node that has children
C13_AppliedToNodeWithChildren ==
    /\ At("apply", "done")
    /\ Top.self.node = "FunctionDefinition"
    /\ Top.self.body.items # <<>> /\ Top.self.parameters # <<>>
    /\ Len(visits) = 1

\* next() is about to ask the remaining matchers for a completed token
\* (lexer.rs 422-431: no matcher accepts the peeked character)
CompletionConsulted ==
    /\ lpc = "scan"
    /\ Peeked # None
    /\ FilterMapAccept(possibilities, Peeked[1]) = <<>>
    /\ characters_read_so_far # <<>>

\* C14: whenever the matchers are consulted for completion, no completion
\* check fails: the text the float matcher (or any other matcher) has
\* accumulated parses, and next() never panics.
C14_CompletionNeverFails ==
    /\ lpc # "panic"
    /\ CompletionConsulted => ~FirstCompleted(possibilities).panic

\* C15: for every punctuation or operator mark, the input made of the mark and
\* one whitespace character makes next() return exactly the token of that mark
\* and then the end of the sequence.
C15_EveryMarkWins ==
    \A m \in PunctuationMarks :
        input = ExactMatchString(m) \o <<" ">> =>
            /\ lpc # "panic"
            /\ Len(emitted) >= 1 => emitted[1].result = Some(Mark(m))
            /\ Len(emitted) >= 2 => emitted[2].result = None

\* the number of consecutive backslashes right before position j, after the
\* opening quote at position p
RECURSIVE BackslashRun(_, _, _)
BackslashRun(s, p, j) ==
    IF j - 1 <= p \/ s[j - 1] # "\\" THEN 0 ELSE 1 + BackslashRun(s, p, j - 1)

\* position j holds a quote preceded by an even number of backslashes
EvenQuote(s, p, j) == s[j] = "\"" /\ BackslashRun(s, p, j) % 2 = 0

\* the first such quote after the opening quote at p
ClosingQuotes(s, p) ==
    {j \in (p + 1)..Len(s) :
        EvenQuote(s, p, j) /\ \A k \in (p + 1)..(j - 1) : ~EvenQuote(s, p, k)}

\* C16: a string literal that starts at a quote ends at the first later quote
\* preceded by an even number (zero included) of consecutive backslashes; when
\* a character follows that quote, next() returns StringLiteral of the verbatim
\* text between the two quotes.
C16_StringEndsAtEvenQuote ==
    \A i \in 1..Len(emitted) :
        LET e == emitted[i]
            p == e.at + 1
        IN (e.text # <<>> /\ e.text[1] = "\"") =>
              \A j \in ClosingQuotes(input, p) :
                  j < Len(input) =>
                      e.result = Some(Tok("StringLiteral", SubSeq(input, p + 1, j - 1)))

\* the lengths of the non-empty texts starting at position p of the input
\* that some registered matcher accepts and completes to a token
ValidPrefixLengths(p) ==
    {n \in 1..(Len(input) - p + 1) :
        \E k \in Registered : CompletesOn(k, SubSeq(input, p, p + n - 1))}

MaxOf(S) == CHOOSE n \in S : \A o \in S : o <= n

\* C17: whenever next() returns a token for a position where some non-empty
\* prefix of the remaining input is a valid token, the token is not an error
\* token and its text is the longest such prefix.
C17_LongestValidPrefix ==
    \A i \in 1..Len(emitted) :
        LET e == emitted[i]
            p == e.at + 1
        IN (e.result # None /\ ValidPrefixLengths(p) # {}) =>
              /\ IsTokenEntry(e)
              /\ Len(e.text) = MaxOf(ValidPrefixLengths(p))

\* the texts of the keywords
KeywordText == [k \in Keywords |-> ExactMatchString(k)]
KeywordTexts == {KeywordText[k] : k \in Keywords}

\* C18: keywords win over identifiers on ties.  A token whose text is the
\* text of a keyword or primitive-type keyword k is the keyword token of k,
\* never Identifier(k); and the input k followed by a character that is not
\* alphanumeric, `_` or `!` makes the first call of next() return that token.
C18_KeywordsWinTies ==
    /\ \A i \in 1..Len(emitted) :
          (emitted[i].result # None /\ emitted[i].text \in KeywordTexts) =>
              \E k \in Keywords :
                  /\ KeywordText[k] = emitted[i].text
                  /\ emitted[i].result = Some(Mark(k))
    /\ (input \in KeywordInputs /\ emitted # <<>>) =>
          /\ emitted[1].text = SubSeq(input, 1, Len(input) - 1)
          /\ emitted[1].text \in KeywordTexts
          /\ emitted[1].result # None

\* C18 witness: the keyword of an input "k(" has been returned, for a keyword
\* that is a type name
C18_KeywordEmitted ==
    /\ \E k \in TypeTokens :
          /\ input = ExactMatchString(k) \o <<"(">>
          /\ emitted # <<>> /\ emitted[1].result = Some(Mark(k))

\* in the matchers still in play, every matcher of mark a stands before every
\* matcher of mark b
StandsBefore(a, b) ==
    \A i \in 1..Len(possibilities) :
        (possibilities[i].kind = "exact" /\ possibilities[i].token = a) =>
            \A j \in 1..Len(possibilities) :
                (possibilities[j].kind = "exact" /\ possibilities[j].token = b) => i < j

\* a token text that starts with `-` at position p of the input, followed by
\* at least one more character, is returned as Arrow when it is `->` and as
\* Minus when the character after `-` is not `>`
ArrowOrMinus(e) ==
    LET p == e.at + 1
    IN (e.text # <<>> /\ e.text[1] = "-") =>
          /\ (p + 2 <= Len(input) /\ input[p + 1] = ">") =>
                e.result = Some(Mark("Arrow")) /\ e.text = <<"-", ">">>
          /\ (p + 1 <= Len(input) /\ input[p + 1] # ">") =>
                e.result = Some(Mark("Minus")) /\ e.text = <<"-">>

\* C19 as stated: the Arrow matcher is registered before the Minus matcher it
\* extends, and `->` followed by a character yields one Arrow, `-` followed by
\* a character other than `>` yields Minus.
C19_ArrowRegisteredBeforeMinus ==
    /\ StandsBefore("Arrow", "Minus")
    /\ \A i \in 1..Len(emitted) : ArrowOrMinus(emitted[i])

\* C19 amended: the Minus matcher is registered before the Arrow matcher; all
\* the same `->` followed by a character yields one Arrow, because the Minus
\* matcher rejects `>` and is out of play when completion is asked, and `-`
\* followed by a character other than `>` yields Minus.
C19_ArrowWinsThoughRegisteredAfterMinus ==
    /\ StandsBefore("Minus", "Arrow")
    /\ \A i \in 1..Len(emitted) : ArrowOrMinus(emitted[i])

\* C19 witness: an Arrow has been returned for `->` with a character after it
C19_ArrowEmitted ==
    \E i \in 1..Len(emitted) :
        /\ emitted[i].result = Some(Mark("Arrow"))
        /\ emitted[i].at + 2 < Len(input)

\* a non-empty run of numeric characters
NumericRun(s) == s # <<>> /\ \A i \in 1..Len(s) : is_numeric(s[i])

\* the decimal value of a run of digits, as its decimal text
DecimalValue(s) ==
    IF StripLeadingZeros(s) = <<>> THEN <<"0">> ELSE StripLeadingZeros(s)

\* C20: a run of numeric characters never crashes next(), whatever its length
\* and value, and when next() returns a token for such a run the token is
\* Integer(n) with n the decimal value of the run.
C20_NumericRunIsInteger ==
    /\ NumericRun(characters_read_so_far) => lpc # "panic"
    /\ \A i \in 1..Len(emitted) :
          (NumericRun(emitted[i].text) /\ emitted[i].result # None) =>
              emitted[i].result = Some(Tok("Integer", DecimalValue(emitted[i].text)))

\* the statements of the block of BaseProgram, in source order
BaseProgramBody ==
    << VariableDefinition(TRUE, <<"x">>, Type("I8"), IntegerLiteral(<<"1">>)),
       IgnoreValue(IntegerLiteral(<<"1">>)),
       IntegerLiteral(<<"1">>) >>

\* C21: parse_repeated_item.  With a terminator t the loop returns the items
\* parsed so far exactly when the peeked token is t, and consumes it; when the
\* stream is exhausted first it returns "Unexpected end of input".  With no
\* terminator it returns Ok only at the end of the stream and consumes nothing.
\* Any other peeked token starts an item parser and is left in place.  An item
\* that was parsed is appended behind the earlier ones, so the items come in
\* source order.
C21_RepeatedItemStep ==
    /\ (At("parse_repeated_item", "loop") /\ HasTok) =>
          IF Top.end # None /\ PeekTok = Top.end
          THEN /\ tokBuf' = None
               /\ pstack' = Rest /\ pret' = Some(Ok(List(Top.items)))
          ELSE IF PeekTok = None
          THEN /\ tokBuf' = tokBuf
               /\ pstack' = Rest
               /\ pret' = Some(IF Top.end = None THEN Ok(List(Top.items))
                                                 ELSE Err(unexpected_end))
          ELSE /\ tokBuf' = tokBuf
               /\ pret' = None
               /\ Len(pstack') = Len(pstack) + 1
               /\ pstack'[Len(pstack)].items = Top.items
    /\ (At("parse_repeated_item", "ret") /\ pret[1].ok) =>
          /\ Len(pstack') = Len(pstack)
          /\ pstack'[Len(pstack)].items = Append(Top.items, pret[1].val)

C21_RepeatedItem ==
    /\ [][C21_RepeatedItemStep]_vars
    /\ [](MainDone /\ parse_result[1].ok /\ input = Render(BaseProgram \o BaseProgram) =>
            /\ Len(parse_result[1].val.items) = 2
            /\ \A i \in 1..2 : parse_result[1].val.items[i].body.items = BaseProgramBody)

\* C21 witness: a program of two functions was parsed, each list ended by its
\* terminator and the list of functions by the end of the stream
C21_TwoFunctionsParsed ==
    /\ MainDone /\ parse_result[1].ok
    /\ Len(parse_result[1].val.items) = 2
    /\ parse_result[1].val.items[2].parameters # <<>>

\* C22: a MacroCall token is returned only for a non-empty run of
\* alphanumeric characters and underscores immediately followed by `!`: its
\* text is the run and the `!`, nothing after it, and its value is the run.
C22_MacroCallIsRunThenBang ==
    \A i \in 1..Len(emitted) :
        (emitted[i].result # None /\ emitted[i].result[1].type = "MacroCall") =>
            LET run == emitted[i].result[1].value
            IN /\ run # <<>>
               /\ \A j \in 1..Len(run) : is_alphanumeric(run[j]) \/ run[j] = "_"
               /\ emitted[i].text = run \o <<"!">>

\* the position in the input of the last character of an entry's text
EndOf(e) == e.at + Len(e.text)

\* C23: the character that ends a token is not lost.  When next() returns a
\* non-error token, the character every remaining candidate rejected is still
\* in the Peekable's slot and is the one pulled character not yet consumed;
\* between a token and the value returned after it only whitespace is passed
\* over, and the first character after that whitespace is the first character
\* of the following text (or the invalid character an error names).  The slot
\* always holds the last character pulled, so at most one character is pulled
\* beyond those consumed.
C23_TokenReturnedStep ==
    (lpc = "scan" /\ lpc' = "idle" /\ IsTokenEntry(emitted'[Len(emitted')])) =>
        /\ Peeked # None
        /\ FilterMapAccept(possibilities, Peeked[1]) = <<>>
        /\ cpeek' = Some(Peeked)
        /\ pulled' = EndOf(emitted'[Len(emitted')]) + 1
        /\ input[pulled'] = Peeked[1]

C23_NothingLostBetween(i) ==
    LET e == emitted[i]
        n == emitted[i + 1]
    IN IsTokenEntry(e) =>
          /\ n.at >= EndOf(e)
          /\ \A q \in (EndOf(e) + 1)..n.at : is_whitespace(input[q])
          /\ n.text # <<>> => n.text[1] = input[n.at + 1]
          /\ (IsErrorEntry(n) /\ n.text = <<>>) =>
                n.result[1].value = <<"Invalid character: ", input[n.at + 1]>>

C23_SlotHoldsLastPulled ==
    (cpeek # None /\ cpeek[1] # None) => (pulled >= 1 /\ cpeek[1][1] = input[pulled])

C23_ReadSoFarEndsAtSlot ==
    LET c == IF cpeek # None /\ cpeek[1] # None THEN pulled - 1 ELSE pulled
    IN /\ lpc = "scan" =>
             characters_read_so_far = SubSeq(input, c - Len(characters_read_so_far) + 1, c)
       /\ (lpc = "idle" /\ emitted # <<>>) => EndOf(emitted[Len(emitted)]) = c

C23_EndingCharacterNotLost ==
    /\ [][C23_TokenReturnedStep]_vars
    /\ [](\A i \in 1..(Len(emitted) - 1) : C23_NothingLostBetween(i))
    /\ [](C23_SlotHoldsLastPulled /\ C23_ReadSoFarEndsAtSlot)

\* C23 witness: two tokens were returned with no whitespace between them, the
\* second starting at the character that ended the first
C23_AdjacentTokens ==
    \E i \in 1..(Len(emitted) - 1) :
        /\ IsTokenEntry(emitted[i]) /\ IsTokenEntry(emitted[i + 1])
        /\ emitted[i + 1].at = EndOf(emitted[i])

\* C24: when the tokenizer has returned an Error token to the parser, parse
\* does not return Ok: the parser position that receives the token reports it
\* as an unexpected token, no further token is pulled, and that SyntaxError is
\* the result of parse.
C24_ErrorTokenFailsParse ==
    (MainDone /\ ErrorEmitted) =>
        /\ ~parse_result[1].ok
        /\ IsErrorEntry(emitted[Len(emitted)])
        /\ parse_result[1].err.message =
               <<"Unexpected token: ", "'">>
                   \o emitted[Len(emitted)].result[1].value \o <<"'">>

\* C24 witness: parse has failed on an Error token met inside a function body
C24_ErrorInsideBody ==
    /\ MainDone /\ ErrorEmitted
    /\ \E i \in 1..Len(emitted) : emitted[i].result = Some(Mark("LeftBrace"))

\* C25: termination.  Every call of next() on a finite source returns, and
\* parse, once called by main, returns Ok or Err to main.
C25_Terminates ==
    /\ (lpc = "entry") ~> (lpc = "idle")
    /\ At("main", "start") ~> MainDone

\* C25, what does hold: no loop of next() or of parse_repeated_item goes on for
\* ever; a call that does not return has aborted in a panic of complete()
C25_ReturnsOrAborts ==
    /\ (lpc = "entry") ~> (lpc = "idle" \/ lpc = "panic")
    /\ At("main", "start") ~> (MainDone \/ lpc = "panic")

====
